---------------------------- MODULE Spec2Model ----------------------------
(***************************************************************************)
(* The CEE course-scheduling conflict calculator: conflict_engine.py       *)
(* (day_patterns_conflict, times_overlap, offerings_conflict,              *)
(* calculate_conflicts) and the POST /conflicts handler of app.py.         *)
(*                                                                         *)
(* Strings that the code takes apart (day patterns, HH:MM times) are       *)
(* sequences of one-character strings.  Likelihoods are numerators over    *)
(* LikDen (quarters), weights and scores numerators over WeightDen         *)
(* (sixteenths): dyadic values, on which the code's float arithmetic is    *)
(* exact.  Rounded values are integers: hundredths for round(x, 2),        *)
(* tenths of a percent for round(x, 1).                                    *)
(***************************************************************************)
EXTENDS Integers, Sequences, FiniteSets, TLC

VARIABLES
    students,            \* app.py: the roster loaded at startup (students_df)
    student_plans,       \* app.py: the plan rows loaded at startup
    schedule,            \* the request body (schedule_df), <<>> before a request
    pc,                  \* "idle" | "scan" | "merge" | "done" | "fault" | "pair"
    terms_in_schedule,   \* conflict_engine.py line 120
    plans,               \* line 121: the plan rows of scheduled terms
    course_to_offering,  \* lines 124-131: the lookup, a sequence of [key, val]
    todo,                \* the student_ids line 141 has still to visit
    acc,                 \* lines 134-138: the five accumulators
    partial,             \* the private accumulators of the workers of section 5
    result,              \* the returned dictionary, or "none"
    offering1,           \* the arguments of a call of offerings_conflict
    offering2,
    conflict             \* its result <<b>>, <<>> before the call

vars == <<students, student_plans, schedule, pc, terms_in_schedule, plans,
          course_to_offering, todo, acc, partial, result,
          offering1, offering2, conflict>>

-----------------------------------------------------------------------------
(* Strings *)

Str(a, b) == <<a, b>>

Time(h1, h2, m1, m2) == <<h1, h2, ":", m1, m2>>

\* int(): the value of one decimal digit
DigitVal(c) ==
    CASE c = "0" -> 0 [] c = "1" -> 1 [] c = "2" -> 2 [] c = "3" -> 3
      [] c = "4" -> 4 [] c = "5" -> 5 [] c = "6" -> 6 [] c = "7" -> 7
      [] c = "8" -> 8 [] c = "9" -> 9

\* int(s) of a string of decimal digits
RECURSIVE ParseInt(_)
ParseInt(s) ==
    IF s = <<>> THEN 0
    ELSE 10 * ParseInt(SubSeq(s, 1, Len(s) - 1)) + DigitVal(s[Len(s)])

\* time_str.split(':') of a string with one colon
SplitColon(s) ==
    LET k == CHOOSE i \in 1..Len(s) : s[i] = ":"
    IN  <<SubSeq(s, 1, k - 1), SubSeq(s, k + 1, Len(s))>>

-----------------------------------------------------------------------------
(* The overlap predicates *)

\* set(pattern): the day symbols of a pattern
DaySet(pattern) == {pattern[i] : i \in DOMAIN pattern}

day_patterns_conflict(pattern1, pattern2) ==
    LET days1 == DaySet(pattern1)
        days2 == DaySet(pattern2)
    IN  Cardinality(days1 \cap days2) > 0

time_to_minutes(time_str) ==
    LET hm == SplitColon(time_str)
    IN  ParseInt(hm[1]) * 60 + ParseInt(hm[2])

\* a bug: closed intervals, touching endpoints overlap
times_overlap_closed(start1, end1, start2, end2) ==
    LET s1 == time_to_minutes(start1)
        e1 == time_to_minutes(end1)
        s2 == time_to_minutes(start2)
        e2 == time_to_minutes(end2)
    IN  s1 <= e2 /\ s2 <= e1

times_overlap(start1, end1, start2, end2) ==
    LET s1 == time_to_minutes(start1)
        e1 == time_to_minutes(end1)
        s2 == time_to_minutes(start2)
        e2 == time_to_minutes(end2)
    IN  s1 < e2 /\ s2 < e1

offerings_conflict(o1, o2) ==
    IF ~day_patterns_conflict(o1.day_pattern, o2.day_pattern)
    THEN FALSE
    ELSE times_overlap(o1.start_time, o1.end_time, o2.start_time, o2.end_time)

-----------------------------------------------------------------------------
(* Python values: numbers, dictionaries, lists *)

LikDen == 2 * 2                 \* likelihoods are numerators over 4
WeightDen == LikDen * LikDen    \* weights and scores are numerators over 16

\* round-half-to-even of num / den, den > 0, num >= 0
RoundHalfEven(num, den) ==
    LET q == num \div den
        r == num % den
    IN  IF 2 * r < den THEN q
        ELSE IF 2 * r > den THEN q + 1
        ELSE IF q % 2 = 0 THEN q ELSE q + 1

\* round(score, 2), in hundredths
Round2(score) == RoundHalfEven(score * 100, WeightDen)

\* round(n / d * 100, 1), in tenths of a percent
Round1Pct(n, d) == RoundHalfEven(n * 1000, d)

\* a dictionary is the sequence of its items [key, val] in insertion order
Has(d, k) == \E i \in DOMAIN d : d[i].key = k

Get(d, k) == d[CHOOSE i \in DOMAIN d : d[i].key = k].val

\* d[k] = v: a new key is appended, an old key keeps its place
Put(d, k, v) ==
    IF Has(d, k)
    THEN [i \in DOMAIN d |-> IF d[i].key = k THEN [key |-> k, val |-> v] ELSE d[i]]
    ELSE Append(d, [key |-> k, val |-> v])

\* Series.unique(): the distinct values in order of first appearance
RECURSIVE Unique(_)
Unique(s) ==
    IF s = <<>> THEN <<>>
    ELSE LET init == Unique(SubSeq(s, 1, Len(s) - 1))
             x == s[Len(s)]
         IN  IF \E i \in DOMAIN init : init[i] = x THEN init ELSE Append(init, x)

\* the lexicographic order of the course codes (str.__lt__)
CodeOrd(c) ==
    CASE c = "ECI 114" -> 1 [] c = "ECI 130" -> 2 [] c = "ECI 135" -> 3
      [] c = "ECI 140" -> 4 [] c = "ECI 142" -> 5 [] c = "ECI 150" -> 6
      [] c = "ECI 153" -> 7 [] c = "ECI 161" -> 8 [] c = "ECI 163" -> 9
      [] c = "ECI 171" -> 10 [] c = "ECI 179" -> 11 [] c = "ECI 189" -> 12

\* tuple(sorted([a, b]))
SortedPair(a, b) == IF CodeOrd(b) < CodeOrd(a) THEN <<b, a>> ELSE <<a, b>>

\* sorted(items, key=..., reverse=True), keys[i] being the key of items[i]:
\* descending by key, and stable (items of equal key keep their order)
SortDesc(items, keys) ==
    LET place(i) ==
            Cardinality({j \in DOMAIN items : keys[j] > keys[i]})
            + Cardinality({j \in 1..i : keys[j] = keys[i]})
    IN  [p \in DOMAIN items |-> items[CHOOSE i \in DOMAIN items : place(i) = p]]

\* items[:n]
Take(items, n) == SubSeq(items, 1, IF Len(items) < n THEN Len(items) ELSE n)

-----------------------------------------------------------------------------
(* calculate_conflicts: the set-up, lines 119-138 *)

\* schedule_df['term'].unique()
TermsInSchedule(schedule_df) ==
    Unique([i \in DOMAIN schedule_df |-> schedule_df[i].term])

\* plans['student_id'].unique()
StudentIds(plan_rows) ==
    Unique([i \in DOMAIN plan_rows |-> plan_rows[i].student_id])

\* student_plans_df[student_plans_df['term'].isin(terms_in_schedule)]
FilterPlans(student_plans_df, terms) ==
    LET inTerms(row) == \E i \in DOMAIN terms : terms[i] = row.term
    IN  SelectSeq(student_plans_df, inTerms)

OfferingOf(row) ==
    [day_pattern |-> row.day_pattern, start_time |-> row.start_time,
     end_time |-> row.end_time, term |-> row.term]

\* a bug: the first row of a course_code is kept
RECURSIVE CourseToOffering_first(_)
CourseToOffering_first(schedule_df) ==
    IF schedule_df = <<>> THEN <<>>
    ELSE LET row == schedule_df[1]
         IN  Put(CourseToOffering_first(Tail(schedule_df)),
                 row.course_code, OfferingOf(row))

\* the loop of lines 125-131: a later row of a course_code overwrites an earlier one
RECURSIVE CourseToOffering(_)
CourseToOffering(schedule_df) ==
    IF schedule_df = <<>> THEN <<>>
    ELSE LET row == schedule_df[Len(schedule_df)]
         IN  Put(CourseToOffering(SubSeq(schedule_df, 1, Len(schedule_df) - 1)),
                 row.course_code, OfferingOf(row))

\* lines 134-138
EmptyAcc ==
    [total_expected_conflicts |-> 0,
     students_with_conflict |-> {},
     conflicts_by_path |-> <<>>,
     conflicts_by_course |-> <<>>,
     conflicts_by_pair |-> <<>>]

-----------------------------------------------------------------------------
(* calculate_conflicts: one iteration of the student loop, lines 141-189 *)

\* students_df[students_df['student_id'] == student_id]
RosterRows(student_id) ==
    LET mine(row) == row.student_id = student_id
    IN  SelectSeq(students, mine)

\* line 143: .iloc[0] of an empty selection raises IndexError
MissingStudent(student_id) == RosterRows(student_id) = <<>>

PathTypeOf(student_id) == RosterRows(student_id)[1].path_type

\* lines 147-151
InitPath(a, path_type) ==
    IF Has(a.conflicts_by_path, path_type) THEN a
    ELSE [a EXCEPT !.conflicts_by_path =
            Put(@, path_type, [expected_conflicts |-> 0, students_with_conflict |-> {}])]

\* lines 153-162: the student's plan rows whose course is in the lookup
StudentScheduledCourses(student_id) ==
    LET mine(row) == row.student_id = student_id
        student_courses == SelectSeq(plans, mine)
        offered(row) == Has(course_to_offering, row.course_code)
        kept == SelectSeq(student_courses, offered)
    IN  [i \in DOMAIN kept |->
            [course_code |-> kept[i].course_code,
             likelihood |-> kept[i].likelihood,
             offering |-> Get(course_to_offering, kept[i].course_code)]]

\* lines 166-167: the index pairs (i, j) the two loops visit, in their order
RECURSIVE PairsFrom(_, _, _)
PairsFrom(i, j, n) ==
    IF i > n THEN <<>>
    ELSE IF j > n THEN PairsFrom(i + 1, i + 2, n)
    ELSE <<<<i, j>>>> \o PairsFrom(i, j + 1, n)

\* a bug: student_scheduled_courses[i:] for [i+1:], a course is paired with itself
RECURSIVE PairsFromSelf(_, _, _)
PairsFromSelf(i, j, n) ==
    IF i > n THEN <<>>
    ELSE IF j > n THEN PairsFromSelf(i + 1, i + 1, n)
    ELSE <<<<i, j>>>> \o PairsFromSelf(i, j + 1, n)

CoursePairs_self(n) == PairsFromSelf(1, 1, n)

CoursePairs(n) == PairsFrom(1, 2, n)

\* a bug: = for +=, the score is overwritten
AddToCourse_assign(by_course, course_code, conflict_weight) ==
    Put(by_course, course_code, conflict_weight)

\* lines 176-179
AddToCourse(by_course, course_code, conflict_weight) ==
    LET d == IF Has(by_course, course_code) THEN by_course
             ELSE Put(by_course, course_code, 0)
    IN  Put(d, course_code, Get(d, course_code) + conflict_weight)

\* a bug: only the first course of the pair is credited
TrackByCourse_first(by_course, code1, code2, conflict_weight) ==
    AddToCourse(by_course, code1, conflict_weight)

TrackByCourse(by_course, code1, code2, conflict_weight) ==
    AddToCourse(AddToCourse(by_course, code1, conflict_weight), code2, conflict_weight)

\* lines 182-185
TrackByPair(by_pair, code1, code2, conflict_weight) ==
    LET pair == SortedPair(code1, code2)
        d == IF Has(by_pair, pair) THEN by_pair ELSE Put(by_pair, pair, 0)
    IN  Put(d, pair, Get(d, pair) + conflict_weight)

\* lines 172: the path's running sum
AddToPath(by_path, path_type, conflict_weight) ==
    LET m == Get(by_path, path_type)
    IN  Put(by_path, path_type,
            [m EXCEPT !.expected_conflicts = @ + conflict_weight])

\* line 170
ConflictWeight(course1, course2) == course1.likelihood * course2.likelihood

\* lines 168-185: the body of the inner loop; st is [a, student_has_conflict]
PairStep(st, course1, course2, path_type) ==
    IF offerings_conflict(course1.offering, course2.offering)
    THEN LET conflict_weight == ConflictWeight(course1, course2)
             a == st.a
         IN  [a |-> [a EXCEPT
                      !.total_expected_conflicts = @ + conflict_weight,
                      !.conflicts_by_path = AddToPath(@, path_type, conflict_weight),
                      !.conflicts_by_course =
                          TrackByCourse(@, course1.course_code, course2.course_code,
                                        conflict_weight),
                      !.conflicts_by_pair =
                          TrackByPair(@, course1.course_code, course2.course_code,
                                      conflict_weight)],
              student_has_conflict |-> TRUE]
    ELSE st

\* lines 166-185: the body applied to the pairs in turn, from the k-th on
\* (the comparison has TLC evaluate next before the recursive call)
RECURSIVE InnerLoop(_, _, _, _, _)
InnerLoop(st, courses, pairs, k, path_type) ==
    IF k > Len(pairs) THEN st
    ELSE LET next == PairStep(st, courses[pairs[k][1]], courses[pairs[k][2]],
                              path_type)
         IN  IF next = st
             THEN InnerLoop(st, courses, pairs, k + 1, path_type)
             ELSE InnerLoop(next, courses, pairs, k + 1, path_type)

\* lines 166-185
PairLoop(st, courses, pairs, path_type) == InnerLoop(st, courses, pairs, 1, path_type)

\* a bug: the student is marked whether or not a pair conflicted
MarkStudent_always(st, student_id, path_type) ==
    LET m == Get(st.a.conflicts_by_path, path_type)
    IN  [st.a EXCEPT
           !.students_with_conflict = @ \cup {student_id},
           !.conflicts_by_path =
               Put(@, path_type,
                   [m EXCEPT !.students_with_conflict = @ \cup {student_id}])]

\* lines 187-189
MarkStudent(st, student_id, path_type) ==
    IF st.student_has_conflict
    THEN LET m == Get(st.a.conflicts_by_path, path_type)
         IN  [st.a EXCEPT
                !.students_with_conflict = @ \cup {student_id},
                !.conflicts_by_path =
                    Put(@, path_type,
                        [m EXCEPT !.students_with_conflict = @ \cup {student_id}])]
    ELSE st.a

\* lines 142-189 for one student_id of the roster, from accumulators a
StudentScan(a, student_id) ==
    LET path_type == PathTypeOf(student_id)
        courses == StudentScheduledCourses(student_id)
        st0 == [a |-> InitPath(a, path_type), student_has_conflict |-> FALSE]
        st1 == PairLoop(st0, courses, CoursePairs(Len(courses)), path_type)
    IN  MarkStudent(st1, student_id, path_type)

-----------------------------------------------------------------------------
(* calculate_conflicts: the result, lines 191-233 *)

TopN == 10

\* a bug: the path total counts only the students that have plan rows
TotalInPath_planners(path_type) ==
    LET inPath(row) ==
            /\ row.path_type = path_type
            /\ \E i \in DOMAIN student_plans :
                  student_plans[i].student_id = row.student_id
    IN  Len(SelectSeq(students, inPath))

\* line 194
TotalInPath(path_type) ==
    LET inPath(row) == row.path_type = path_type
    IN  Len(SelectSeq(students, inPath))

\* line 200
ConflictRate(n_conflicted, total_in_path) ==
    IF total_in_path > 0 THEN Round1Pct(n_conflicted, total_in_path) ELSE 0

\* lines 192-201
ByPathList(a) ==
    [i \in DOMAIN a.conflicts_by_path |->
        LET path_type == a.conflicts_by_path[i].key
            metrics == a.conflicts_by_path[i].val
            total_in_path == TotalInPath(path_type)
        IN  [path_type |-> path_type,
             expected_conflicts |-> Round2(metrics.expected_conflicts),
             students_with_conflict |-> Cardinality(metrics.students_with_conflict),
             total_students_in_path |-> total_in_path,
             conflict_rate |->
                 ConflictRate(Cardinality(metrics.students_with_conflict),
                              total_in_path)]]

\* a bug: reverse=True left out, the lowest scores come first
TopItems_ascending(d) ==
    Take(SortDesc(d, [i \in DOMAIN d |-> 0 - d[i].val]), TopN)

\* lines 204 and 215: sorted(d.items(), key=lambda x: x[1], reverse=True)[:10]
TopItems(d) == Take(SortDesc(d, [i \in DOMAIN d |-> d[i].val]), TopN)

\* lines 204-212
TopPairsFormatted(a) ==
    LET top_pairs == TopItems(a.conflicts_by_pair)
    IN  [i \in DOMAIN top_pairs |->
            [course_a |-> top_pairs[i].key[1],
             course_b |-> top_pairs[i].key[2],
             expected_conflicts |-> Round2(top_pairs[i].val)]]

\* lines 215-219
TopCoursesFormatted(a) ==
    LET top_courses == TopItems(a.conflicts_by_course)
    IN  [i \in DOMAIN top_courses |->
            [course_code |-> top_courses[i].key,
             conflict_score |-> Round2(top_courses[i].val)]]

\* line 229: sorted(by_path_list, key=lambda x: x['expected_conflicts'], reverse=True)
ByPathSorted(a) ==
    LET by_path_list == ByPathList(a)
    IN  SortDesc(by_path_list,
                 [i \in DOMAIN by_path_list |-> by_path_list[i].expected_conflicts])

\* lines 221-233; len(students_df) > 0
Result(a) ==
    [term |-> terms_in_schedule,
     total_students |-> Len(students),
     courses_in_schedule |-> Len(schedule),
     metrics |->
        [expected_conflicts_all |-> Round2(a.total_expected_conflicts),
         students_with_conflict |-> Cardinality(a.students_with_conflict),
         conflict_rate_overall |->
             Round1Pct(Cardinality(a.students_with_conflict), Len(students)),
         by_path_type |-> ByPathSorted(a),
         top_conflicting_pairs |-> TopPairsFormatted(a),
         top_conflicting_courses |-> TopCoursesFormatted(a)]]

\* a bug: the short-circuit reports no students
EmptyResponse_nostudents ==
    [term |-> <<>>,
     total_students |-> 0,
     courses_in_schedule |-> 0,
     metrics |->
        [expected_conflicts_all |-> 0,
         students_with_conflict |-> 0,
         conflict_rate_overall |-> 0,
         by_path_type |-> <<>>,
         top_conflicting_pairs |-> <<>>,
         top_conflicting_courses |-> <<>>]]

\* app.py lines 86-99: the response to an empty schedule
EmptyResponse ==
    [term |-> <<>>,
     total_students |-> Len(students),
     courses_in_schedule |-> 0,
     metrics |->
        [expected_conflicts_all |-> 0,
         students_with_conflict |-> 0,
         conflict_rate_overall |-> 0,
         by_path_type |-> <<>>,
         top_conflicting_pairs |-> <<>>,
         top_conflicting_courses |-> <<>>]]

-----------------------------------------------------------------------------
(* The inputs *)

MaxSched == 2       \* offering rows in a request
MaxPlans == 3       \* plan rows loaded at startup
MaxRoster == 2      \* roster rows loaded at startup

SeqUpTo(S, n) == UNION {[1..k -> S] : k \in 0..n}

MW == Str("M", "W")
WF == Str("W", "F")
MF == Str("M", "F")
TR == Str("T", "R")
Patterns == {MW, WF, MF, TR}

T0900 == Time("0", "9", "0", "0")
T1000 == Time("1", "0", "0", "0")
T1030 == Time("1", "0", "3", "0")
T1100 == Time("1", "1", "0", "0")
T1130 == Time("1", "1", "3", "0")
Times == {T0900, T1000, T1030, T1100, T1130}

\* minutes since midnight of the times of the model
Minutes(t) ==
    CASE t = T0900 -> 540 [] t = T1000 -> 600 [] t = T1030 -> 630
      [] t = T1100 -> 660 [] t = T1130 -> 690

Codes == {"ECI 114", "ECI 130"}
Terms == {"2026FA", "2027WI"}
Paths == {"Structures", "Undeclared"}
PlanStudents == {1, 2}

Slot(p, s, e) == [day_pattern |-> p, start_time |-> s, end_time |-> e]

\* MW 10:00-11:00 overlaps WF 10:30-11:30 on W; MF 11:00-11:30 touches the
\* first on M and overlaps the second on F
Slots == {Slot(MW, T1000, T1100), Slot(WF, T1030, T1130), Slot(MF, T1100, T1130)}

ScheduleRows ==
    {[course_code |-> c, day_pattern |-> sl.day_pattern,
      start_time |-> sl.start_time, end_time |-> sl.end_time, term |-> t] :
        c \in Codes, sl \in Slots, t \in Terms}

Schedules == SeqUpTo(ScheduleRows, MaxSched)

\* the likelihood of the i-th plan row: 0.5, 0.75, 1.0, 0.5, ... so that the
\* products of two rows among three consecutive ones all differ
LikelihoodAt(i) == 2 + ((i - 1) % 3)

PlanKeys == [student_id : PlanStudents, course_code : Codes, term : Terms]

PlanSets ==
    {[i \in DOMAIN ks |->
        [student_id |-> ks[i].student_id, course_code |-> ks[i].course_code,
         term |-> ks[i].term, likelihood |-> LikelihoodAt(i)]] :
            ks \in SeqUpTo(PlanKeys, MaxPlans)}

\* rosters with unique student_ids 1..n; the first student is in Structures
Rosters ==
    UNION {{[i \in 1..n |-> [student_id |-> i, path_type |-> p[i]]] :
                p \in {q \in [1..n -> Paths] : n > 0 => q[1] = "Structures"}} :
           n \in 0..MaxRoster}

NoOffering == [day_pattern |-> <<>>, start_time |-> <<>>, end_time |-> <<>>,
               term |-> ""]

-----------------------------------------------------------------------------
(* The engine's run *)

Init ==
    /\ students \in Rosters
    /\ student_plans \in PlanSets
    /\ schedule = <<>>
    /\ pc = "idle"
    /\ terms_in_schedule = <<>>
    /\ plans = <<>>
    /\ course_to_offering = <<>>
    /\ todo = <<>>
    /\ acc = EmptyAcc
    /\ partial = <<>>
    /\ result = "none"
    /\ offering1 = NoOffering
    /\ offering2 = NoOffering
    /\ conflict = <<>>

\* app.py compute_conflicts, then lines 119-141 of calculate_conflicts
Request(requests) ==
    /\ pc = "idle"
    /\ \E sched \in requests :
        /\ schedule' = sched
        /\ IF sched = <<>>
           THEN /\ result' = EmptyResponse
                /\ pc' = "done"
                /\ UNCHANGED <<terms_in_schedule, plans, course_to_offering, todo>>
           ELSE /\ terms_in_schedule' = TermsInSchedule(sched)
                /\ plans' = FilterPlans(student_plans, terms_in_schedule')
                /\ course_to_offering' = CourseToOffering(sched)
                /\ todo' = StudentIds(plans')
                /\ pc' = "scan"
                /\ UNCHANGED result
    /\ UNCHANGED <<students, student_plans, acc, partial,
                   offering1, offering2, conflict>>

\* one iteration of the loop of line 141
ScanNext ==
    /\ pc = "scan"
    /\ todo # <<>>
    /\ IF MissingStudent(Head(todo))
       THEN /\ pc' = "fault"
            /\ UNCHANGED <<acc, todo>>
       ELSE /\ acc' = StudentScan(acc, Head(todo))
            /\ todo' = Tail(todo)
            /\ UNCHANGED pc
    /\ UNCHANGED <<students, student_plans, schedule, terms_in_schedule, plans,
                   course_to_offering, partial, result,
                   offering1, offering2, conflict>>

\* lines 191-233; line 228 divides by len(students_df)
Return ==
    /\ IF Len(students) = 0
       THEN /\ pc' = "fault"
            /\ UNCHANGED result
       ELSE /\ result' = Result(acc)
            /\ pc' = "done"
    /\ UNCHANGED <<students, student_plans, schedule, terms_in_schedule, plans,
                   course_to_offering, todo, acc, partial,
                   offering1, offering2, conflict>>

Finish ==
    /\ pc = "scan"
    /\ todo = <<>>
    /\ Return

Next == Request(Schedules) \/ ScanNext \/ Finish

Spec == Init /\ [][Next]_vars

-----------------------------------------------------------------------------
(* offerings_conflict on its own, over every pair of offerings *)

\* every offering with start_time < end_time
PairOfferings ==
    {[day_pattern |-> p, start_time |-> iv[1], end_time |-> iv[2], term |-> t] :
        p \in Patterns, t \in Terms,
        iv \in {x \in Times \X Times : Minutes(x[1]) < Minutes(x[2])}}

InitPair ==
    /\ students = <<>>
    /\ student_plans = <<>>
    /\ schedule = <<>>
    /\ pc = "pair"
    /\ terms_in_schedule = <<>>
    /\ plans = <<>>
    /\ course_to_offering = <<>>
    /\ todo = <<>>
    /\ acc = EmptyAcc
    /\ partial = <<>>
    /\ result = "none"
    /\ offering1 \in PairOfferings
    /\ offering2 \in PairOfferings
    /\ conflict = <<>>

TestPair ==
    /\ pc = "pair"
    /\ conflict = <<>>
    /\ conflict' = <<offerings_conflict(offering1, offering2)>>
    /\ UNCHANGED <<students, student_plans, schedule, pc, terms_in_schedule, plans,
                   course_to_offering, todo, acc, partial, result,
                   offering1, offering2>>

SpecPair == InitPair /\ [][TestPair]_vars

-----------------------------------------------------------------------------
(* Requests with more courses than the ranked lists hold *)

TopCourses == 11    \* courses of the large schedule

CodeList ==
    <<"ECI 114", "ECI 130", "ECI 135", "ECI 140", "ECI 142", "ECI 150",
      "ECI 153", "ECI 161", "ECI 163", "ECI 171", "ECI 179", "ECI 189">>

SlotList ==
    <<Slot(MW, T1000, T1100), Slot(WF, T1030, T1130), Slot(MF, T1100, T1130)>>

\* one offering per course, all in one term, the slots taken in turn
LargeSchedule ==
    [k \in 1..TopCourses |->
        LET sl == SlotList[1 + ((k - 1) % 3)]
        IN  [course_code |-> CodeList[k], day_pattern |-> sl.day_pattern,
             start_time |-> sl.start_time, end_time |-> sl.end_time,
             term |-> "2026FA"]]

TopSchedules == {<<>>, LargeSchedule}

\* the elements of a set of indices, ascending
RECURSIVE Ascending(_)
Ascending(S) ==
    IF S = {} THEN <<>>
    ELSE LET m == CHOOSE x \in S : \A y \in S : y <= x
         IN  Append(Ascending(S \ {m}), m)

Reverse(q) == [i \in DOMAIN q |-> q[Len(q) + 1 - i]]

\* student 1 plans the courses of a set taken in ascending order, student 2 the
\* other courses in descending order
LargePlans(S) ==
    LET mine == Ascending(S)
        others == Reverse(Ascending((1..TopCourses) \ S))
        rows == [i \in DOMAIN mine |-> [student_id |-> 1, k |-> mine[i]]]
                \o [i \in DOMAIN others |-> [student_id |-> 2, k |-> others[i]]]
    IN  [i \in DOMAIN rows |->
            [student_id |-> rows[i].student_id, course_code |-> CodeList[rows[i].k],
             term |-> "2026FA", likelihood |-> LikelihoodAt(i)]]

InitTop ==
    /\ students = <<[student_id |-> 1, path_type |-> "Structures"],
                    [student_id |-> 2, path_type |-> "Undeclared"]>>
    /\ student_plans \in {LargePlans(S) : S \in SUBSET (1..TopCourses)}
    /\ schedule = <<>>
    /\ pc = "idle"
    /\ terms_in_schedule = <<>>
    /\ plans = <<>>
    /\ course_to_offering = <<>>
    /\ todo = <<>>
    /\ acc = EmptyAcc
    /\ partial = <<>>
    /\ result = "none"
    /\ offering1 = NoOffering
    /\ offering2 = NoOffering
    /\ conflict = <<>>

NextTop == Request(TopSchedules) \/ ScanNext \/ Finish

SpecTop == InitTop /\ [][NextTop]_vars

-----------------------------------------------------------------------------
(* The student scan fanned out over workers (section 5): each worker scans  *)
(* the students it takes, in any order, into accumulators of its own, and   *)
(* the partial accumulators are merged once at the end.                     *)

NWorkers == 2

Workers == 1..NWorkers

WorkerStudents == {1, 2, 3}

\* every student of the roster plans two courses of the first scheduled term
WorkerPlans ==
    {[i \in 1..(2 * Cardinality(WorkerStudents)) |->
        [student_id |-> (i + 1) \div 2,
         course_code |-> c[(i + 1) \div 2][2 - (i % 2)],
         term |-> "2026FA",
         likelihood |-> LikelihoodAt(i)]] :
            c \in [WorkerStudents -> Codes \X Codes]}

WorkerRosters ==
    {[i \in 1..Cardinality(WorkerStudents) |->
        [student_id |-> i, path_type |-> p[i]]] :
            p \in {q \in [WorkerStudents -> Paths] : q[1] = "Structures"}}

\* both courses offered in that term, each at any slot
WorkerSchedules ==
    {<<[course_code |-> "ECI 114", day_pattern |-> a.day_pattern,
        start_time |-> a.start_time, end_time |-> a.end_time, term |-> "2026FA"],
       [course_code |-> "ECI 130", day_pattern |-> b.day_pattern,
        start_time |-> b.start_time, end_time |-> b.end_time, term |-> "2026FA"]>> :
          a \in Slots, b \in Slots}

\* sums are added, key by key; the keys of d1 come first
MergeDict(d1, d2) ==
    LET fresh(item) == ~Has(d1, item.key)
    IN  [i \in DOMAIN d1 |->
            IF Has(d2, d1[i].key)
            THEN [key |-> d1[i].key, val |-> d1[i].val + Get(d2, d1[i].key)]
            ELSE d1[i]]
        \o SelectSeq(d2, fresh)

\* per path, the sums are added and the student sets united
MergePaths(d1, d2) ==
    LET fresh(item) == ~Has(d1, item.key)
        both(m, n) ==
            [expected_conflicts |-> m.expected_conflicts + n.expected_conflicts,
             students_with_conflict |->
                 m.students_with_conflict \cup n.students_with_conflict]
    IN  [i \in DOMAIN d1 |->
            IF Has(d2, d1[i].key)
            THEN [key |-> d1[i].key, val |-> both(d1[i].val, Get(d2, d1[i].key))]
            ELSE d1[i]]
        \o SelectSeq(d2, fresh)

\* partial accumulators are merged by addition and set union
MergeAcc(a, b) ==
    [total_expected_conflicts |->
         a.total_expected_conflicts + b.total_expected_conflicts,
     students_with_conflict |->
         a.students_with_conflict \cup b.students_with_conflict,
     conflicts_by_path |-> MergePaths(a.conflicts_by_path, b.conflicts_by_path),
     conflicts_by_course |-> MergeDict(a.conflicts_by_course, b.conflicts_by_course),
     conflicts_by_pair |-> MergeDict(a.conflicts_by_pair, b.conflicts_by_pair)]

RECURSIVE MergeAll(_)
MergeAll(n) == IF n = 0 THEN EmptyAcc ELSE MergeAcc(MergeAll(n - 1), partial[n])

InitWorkers ==
    /\ students \in WorkerRosters
    /\ student_plans \in WorkerPlans
    /\ schedule = <<>>
    /\ pc = "idle"
    /\ terms_in_schedule = <<>>
    /\ plans = <<>>
    /\ course_to_offering = <<>>
    /\ todo = <<>>
    /\ acc = EmptyAcc
    /\ partial = [w \in Workers |-> EmptyAcc]
    /\ result = "none"
    /\ offering1 = NoOffering
    /\ offering2 = NoOffering
    /\ conflict = <<>>

\* worker w runs lines 142-189 for any student still to visit
WorkerScan(w) ==
    /\ pc = "scan"
    /\ \E k \in DOMAIN todo :
          IF MissingStudent(todo[k])
          THEN /\ pc' = "fault"
               /\ UNCHANGED <<partial, todo>>
          ELSE /\ partial' = [partial EXCEPT ![w] = StudentScan(@, todo[k])]
               /\ todo' = SubSeq(todo, 1, k - 1) \o SubSeq(todo, k + 1, Len(todo))
               /\ UNCHANGED pc
    /\ UNCHANGED <<students, student_plans, schedule, terms_in_schedule, plans,
                   course_to_offering, acc, result, offering1, offering2, conflict>>

Merge ==
    /\ pc = "scan"
    /\ todo = <<>>
    /\ acc' = MergeAll(NWorkers)
    /\ pc' = "merged"
    /\ UNCHANGED <<students, student_plans, schedule, terms_in_schedule, plans,
                   course_to_offering, todo, partial, result,
                   offering1, offering2, conflict>>

WorkerFinish ==
    /\ pc = "merged"
    /\ Return

NextWorkers ==
    \/ Request(WorkerSchedules)
    \/ \E w \in Workers : WorkerScan(w)
    \/ Merge
    \/ WorkerFinish

SpecWorkers == InitWorkers /\ [][NextWorkers]_vars

-----------------------------------------------------------------------------
(* What the claims speak of, stated over the inputs alone *)

\* TR shares a day only with TR; MW, WF and MF share one with one another
SharesWeekday(p1, p2) == (p1 = TR) <=> (p2 = TR)

ConflictAsClaimed(o1, o2) ==
    /\ SharesWeekday(o1.day_pattern, o2.day_pattern)
    /\ Minutes(o1.start_time) < Minutes(o2.end_time)
    /\ Minutes(o2.start_time) < Minutes(o1.end_time)

SchedTerms == {schedule[i].term : i \in DOMAIN schedule}
SchedCodes == {schedule[i].course_code : i \in DOMAIN schedule}

\* the last offering row of a course_code of the schedule
LastRow(code) ==
    schedule[CHOOSE i \in DOMAIN schedule :
                /\ schedule[i].course_code = code
                /\ \A j \in DOMAIN schedule :
                      j > i => schedule[j].course_code # code]

\* plan row i is in a scheduled term and its course is in the schedule
Counted(i) ==
    /\ student_plans[i].term \in SchedTerms
    /\ student_plans[i].course_code \in SchedCodes

\* the unordered pairs (i < j) of counted plan rows of one student, a student
\* of S, whose matched offerings conflict
ConflictingPairs(S) ==
    {p \in (DOMAIN student_plans) \X (DOMAIN student_plans) :
        /\ p[1] < p[2]
        /\ student_plans[p[1]].student_id = student_plans[p[2]].student_id
        /\ student_plans[p[1]].student_id \in S
        /\ Counted(p[1]) /\ Counted(p[2])
        /\ ConflictAsClaimed(LastRow(student_plans[p[1]].course_code),
                             LastRow(student_plans[p[2]].course_code))}

PairWeight(p) == student_plans[p[1]].likelihood * student_plans[p[2]].likelihood

RECURSIVE SumWeights(_)
SumWeights(P) ==
    IF P = {} THEN 0
    ELSE LET p == CHOOSE q \in P : TRUE
         IN  PairWeight(p) + SumWeights(P \ {p})

AllStudents == {student_plans[i].student_id : i \in DOMAIN student_plans}

\* the students the scan has processed
Processed ==
    {plans[i].student_id : i \in DOMAIN plans} \ {todo[i] : i \in DOMAIN todo}

RECURSIVE SumVals(_)
SumVals(d) == IF d = <<>> THEN 0 ELSE d[1].val + SumVals(Tail(d))

Returned == pc = "done" /\ schedule # <<>>

-----------------------------------------------------------------------------
(* C1: the returned global expected-conflict total is the sum, over every   *)
(* student and every unordered pair of that student's counted plan rows     *)
(* whose matched offerings conflict, of the product of the two likelihoods. *)
(* As stated (the returned value IS the sum) it fails: the code returns     *)
(* round(sum, 2).                                                           *)
C1_ReturnedTotalIsPairSum ==
    Returned =>
        result.metrics.expected_conflicts_all * WeightDen
            = SumWeights(ConflictingPairs(AllStudents)) * 100

(* C1, amended: the accumulated total is that sum, and the returned value   *)
(* is the sum rounded to two decimals.                                      *)
C1_TotalIsRoundedPairSum ==
    /\ (pc \in {"scan", "done"} /\ todo = <<>> /\ schedule # <<>>) =>
            acc.total_expected_conflicts = SumWeights(ConflictingPairs(AllStudents))
    /\ Returned =>
            result.metrics.expected_conflicts_all
                = Round2(SumWeights(ConflictingPairs(AllStudents)))

\* a student with three counted rows, one pair of which conflicts and two do not,
\* and a sum that is not a whole number of hundredths
C1_Witness ==
    /\ Returned
    /\ \E s \in AllStudents :
          /\ Cardinality(ConflictingPairs({s})) = 1
          /\ Cardinality({i \in DOMAIN student_plans :
                            student_plans[i].student_id = s /\ Counted(i)}) = 3
    /\ (SumWeights(ConflictingPairs(AllStudents)) * 100) % WeightDen # 0

(* C2: after any number of students, the per-course scores sum to twice the *)
(* global total.                                                            *)
C2_CourseScoresSumToTwiceTotal ==
    pc \in {"scan", "done", "fault"} =>
        SumVals(acc.conflicts_by_course) = 2 * acc.total_expected_conflicts

\* mid-scan: one student processed with a conflict, another still to come
C2_Witness ==
    /\ pc = "scan"
    /\ todo # <<>>
    /\ Processed # {}
    /\ acc.total_expected_conflicts > 0
    /\ Len(acc.conflicts_by_course) = 2

(* C4: an empty schedule returns, for any roster and plan set, the         *)
(* zero-valued result with total_students the roster size, and scans no     *)
(* student.                                                                 *)
C4_EmptyScheduleZeroResult ==
    (schedule = <<>> /\ pc # "idle") =>
        /\ pc = "done"
        /\ result.term = <<>>
        /\ result.total_students = Len(students)
        /\ result.metrics.expected_conflicts_all = 0
        /\ result.metrics.students_with_conflict = 0
        /\ result.metrics.conflict_rate_overall = 0
        /\ result.metrics.by_path_type = <<>>
        /\ result.metrics.top_conflicting_pairs = <<>>
        /\ result.metrics.top_conflicting_courses = <<>>
        /\ acc = EmptyAcc
        /\ todo = <<>>

\* answered with an empty roster and plan rows loaded: inputs on which a
\* schedule with rows faults
C4_Witness ==
    /\ pc = "done"
    /\ schedule = <<>>
    /\ students = <<>>
    /\ Len(student_plans) = MaxPlans
    /\ result.total_students = 0

-----------------------------------------------------------------------------
\* the students with at least one conflicting pair
Conflicted(S) == {s \in S : ConflictingPairs({s}) # {}}

CountedRows(s) ==
    {i \in DOMAIN student_plans : student_plans[i].student_id = s /\ Counted(i)}

PathSum(a, path_type) ==
    IF Has(a.conflicts_by_path, path_type)
    THEN Get(a.conflicts_by_path, path_type).expected_conflicts
    ELSE 0

SumsOf(a) ==
    <<a.total_expected_conflicts, [p \in Paths |-> PathSum(a, p)],
      a.conflicts_by_course, a.conflicts_by_pair, a.students_with_conflict>>

C6_CountsDistinctStudents ==
    /\ pc \in {"scan", "done", "fault"} =>
            acc.students_with_conflict = Conflicted(Processed)
    /\ Returned =>
            result.metrics.students_with_conflict
                = Cardinality(Conflicted(AllStudents))

C6_OneCourseStudentAddsNothing ==
    (/\ pc = "scan" /\ pc' = "scan"
     /\ todo # <<>>
     /\ todo' = Tail(todo)
     /\ Cardinality(CountedRows(Head(todo))) <= 1)
        => SumsOf(acc') = SumsOf(acc)

(* C6: students_with_conflict is the number of distinct students with at    *)
(* least one conflicting pair, however many pairs each has; scanning a      *)
(* student with at most one counted course changes no sum and no set.       *)
C6_StudentsWithConflict ==
    []C6_CountsDistinctStudents /\ [][C6_OneCourseStudentAddsNothing]_vars

\* a student with three conflicting pairs is counted once, next to a roster
\* student with no counted course
C6_Witness ==
    /\ Returned
    /\ \E s \in AllStudents : Cardinality(ConflictingPairs({s})) = 3
    /\ result.metrics.students_with_conflict = 1
    /\ Len(students) = 2

-----------------------------------------------------------------------------
RosterPath(s) ==
    students[CHOOSE i \in DOMAIN students : students[i].student_id = s].path_type

InPath(path_type) ==
    {i \in DOMAIN students : students[i].path_type = path_type}

\* rate, in tenths of a percent, is n / d * 100 to the nearest tenth
NearestRate(rate, n, d) ==
    LET diff == rate * d - 1000 * n
    IN  2 * (IF diff < 0 THEN -diff ELSE diff) <= d

(* C7: every by_path_type entry counts the distinct conflicted students of  *)
(* its path, totals the path over the full roster, and gives the rate       *)
(* count / total * 100 to one decimal (0 for an empty path); the count is   *)
(* at most the total and the rate within [0, 100].                          *)
C7_ByPathType ==
    Returned =>
        \A k \in DOMAIN result.metrics.by_path_type :
            LET e == result.metrics.by_path_type[k]
            IN  /\ e.students_with_conflict =
                     Cardinality({s \in Conflicted(AllStudents) :
                                     RosterPath(s) = e.path_type})
                /\ e.total_students_in_path = Cardinality(InPath(e.path_type))
                /\ IF e.total_students_in_path = 0
                   THEN e.conflict_rate = 0
                   ELSE NearestRate(e.conflict_rate, e.students_with_conflict,
                                    e.total_students_in_path)
                /\ e.students_with_conflict <= e.total_students_in_path
                /\ e.conflict_rate >= 0 /\ e.conflict_rate <= 1000

\* a path of two roster students, one conflicted and one without plan rows
C7_Witness ==
    /\ Returned
    /\ \E k \in DOMAIN result.metrics.by_path_type :
          LET e == result.metrics.by_path_type[k]
          IN  /\ e.students_with_conflict = 1
              /\ e.total_students_in_path = 2
              /\ e.conflict_rate = 500
              /\ \E i \in InPath(e.path_type) :
                    students[i].student_id \notin AllStudents

-----------------------------------------------------------------------------
(* C9: of several offering rows with one course_code the lookup keeps the   *)
(* last, only that row's offering is tested for conflicts, and              *)
(* courses_in_schedule counts every row.                                    *)
C9_LastDuplicateWins ==
    (pc \in {"scan", "done", "fault"} /\ schedule # <<>>) =>
        /\ \A c \in SchedCodes :
              /\ Has(course_to_offering, c)
              /\ Get(course_to_offering, c) = OfferingOf(LastRow(c))
        /\ Len(course_to_offering) = Cardinality(SchedCodes)
        /\ \A s \in AllStudents :
              LET courses == StudentScheduledCourses(s)
              IN  \A k \in DOMAIN courses :
                     courses[k].offering = OfferingOf(LastRow(courses[k].course_code))
        /\ pc = "done" => result.courses_in_schedule = Len(schedule)

\* a returned run on two rows of one course at different slots: both rows
\* are counted in courses_in_schedule, the lookup keeps one, and a student
\* planning the course twice conflicts on it
C9_Witness ==
    /\ Returned
    /\ Len(schedule) = 2
    /\ schedule[1].course_code = schedule[2].course_code
    /\ OfferingOf(schedule[1]) # OfferingOf(schedule[2])
    /\ result.courses_in_schedule = 2
    /\ Len(course_to_offering) = 1
    /\ acc.total_expected_conflicts > 0

-----------------------------------------------------------------------------
\* both plan rows are in the term of their matched offering, and the two
\* offerings are in one term
TermsAgree(p) ==
    LET r1 == student_plans[p[1]]
        r2 == student_plans[p[2]]
    IN  /\ r1.term = LastRow(r1.course_code).term
        /\ r2.term = LastRow(r2.course_code).term
        /\ LastRow(r1.course_code).term = LastRow(r2.course_code).term

(* C10: with a schedule of more than one term, weight is added for a pair   *)
(* of plan rows only when each row's term is its matched offering's term    *)
(* and the two offerings are in one term.                                   *)
C10_WeightOnlyWithinTerm ==
    (pc \in {"scan", "done"} /\ todo = <<>> /\ Cardinality(SchedTerms) > 1) =>
        acc.total_expected_conflicts
            = SumWeights({p \in ConflictingPairs(AllStudents) : TermsAgree(p)})

-----------------------------------------------------------------------------
(* C5: offerings_conflict is true exactly when the patterns share a weekday *)
(* and s1 < e2 and s2 < e1 in minutes, so offerings that touch do not       *)
(* conflict; and it is symmetric in its arguments.                          *)
C5_ConflictIffSharedDayAndOverlap ==
    conflict # <<>> =>
        /\ conflict[1] = ConflictAsClaimed(offering1, offering2)
        /\ conflict[1] = offerings_conflict(offering2, offering1)

\* the first offering ends when the second, on a shared weekday, starts
C5_Witness ==
    /\ conflict = <<FALSE>>
    /\ offering1.day_pattern = MW
    /\ offering2.day_pattern = WF
    /\ offering1.end_time = offering2.start_time

-----------------------------------------------------------------------------
\* emitted, a ranked list of (key, rounded score), is the top of dictionary d:
\* at most TopN entries, one per emitted key, non-increasing in score, and no
\* entry left out scores strictly higher than an entry emitted
IsTopOf(emitted, d) ==
    /\ Len(emitted) <= TopN
    /\ Len(emitted) = (IF Len(d) < TopN THEN Len(d) ELSE TopN)
    /\ \A i, j \in DOMAIN emitted : i < j => emitted[i].score >= emitted[j].score
    /\ \A i, j \in DOMAIN emitted : i # j => emitted[i].key # emitted[j].key
    /\ \A i \in DOMAIN emitted :
          /\ Has(d, emitted[i].key)
          /\ emitted[i].score = Round2(Get(d, emitted[i].key))
    /\ \A k \in DOMAIN d :
          (\A i \in DOMAIN emitted : emitted[i].key # d[k].key) =>
              \A i \in DOMAIN emitted : d[k].val <= Get(d, emitted[i].key)

EmittedPairs ==
    [i \in DOMAIN result.metrics.top_conflicting_pairs |->
        LET e == result.metrics.top_conflicting_pairs[i]
        IN  [key |-> <<e.course_a, e.course_b>>, score |-> e.expected_conflicts]]

EmittedCourses ==
    [i \in DOMAIN result.metrics.top_conflicting_courses |->
        LET e == result.metrics.top_conflicting_courses[i]
        IN  [key |-> e.course_code, score |-> e.conflict_score]]

(* C3: the two top lists have at most 10 entries, are sorted non-increasing *)
(* by score, and hold the highest-scoring entries of their accumulators.    *)
C3_TopListsRankedAndTruncated ==
    Returned =>
        /\ IsTopOf(EmittedPairs, acc.conflicts_by_pair)
        /\ IsTopOf(EmittedCourses, acc.conflicts_by_course)

\* both accumulators hold more than 10 entries, and entries were left out that
\* score strictly lower than the last one emitted
C3_Witness ==
    /\ Returned
    /\ Len(acc.conflicts_by_pair) > TopN
    /\ Len(acc.conflicts_by_course) > TopN
    /\ Len(result.metrics.top_conflicting_pairs) = TopN
    /\ Len(result.metrics.top_conflicting_courses) = TopN
    /\ \E k \in DOMAIN acc.conflicts_by_course :
          Round2(acc.conflicts_by_course[k].val) < EmittedCourses[TopN].score
    /\ \E k \in DOMAIN acc.conflicts_by_pair :
          Round2(acc.conflicts_by_pair[k].val) < EmittedPairs[TopN].score
    /\ EmittedPairs[1].score > EmittedPairs[TopN].score

-----------------------------------------------------------------------------
\* the sequential scan of lines 141-189, in the order of line 141
RECURSIVE ScanAll(_, _)
ScanAll(a, ids) ==
    IF ids = <<>> THEN a ELSE ScanAll(StudentScan(a, Head(ids)), Tail(ids))

SequentialScan == ScanAll(EmptyAcc, StudentIds(plans))

Items(d) == {<<d[i].key, d[i].val>> : i \in DOMAIN d}

\* the sums and sets of accumulators a, whatever the order of their keys
SumsAndSets(a) ==
    [total_expected_conflicts |-> a.total_expected_conflicts,
     students_with_conflict |-> a.students_with_conflict,
     conflicts_by_path |-> Items(a.conflicts_by_path),
     conflicts_by_course |-> Items(a.conflicts_by_course),
     conflicts_by_pair |-> Items(a.conflicts_by_pair)]

(* C8: whatever the order in which the students are scanned, and whichever  *)
(* worker scans each, the merged accumulators hold the global total, the    *)
(* conflicted students and the per-path, per-course and per-pair sums of    *)
(* the sequential scan.                                                     *)
C8_ScanIsOrderIndependent ==
    pc \in {"merged", "done"} => SumsAndSets(acc) = SumsAndSets(SequentialScan)

\* two workers each scanned a conflicted student, in an order that left the
\* per-course keys in another order than the sequential scan leaves them
C8_Witness ==
    /\ pc = "merged"
    /\ partial[1].total_expected_conflicts > 0
    /\ partial[2].total_expected_conflicts > 0
    /\ Cardinality(acc.students_with_conflict) = 3
    /\ acc.conflicts_by_course # SequentialScan.conflicts_by_course

=============================================================================
